---------------------------- MODULE Spec2Model ----------------------------
(***************************************************************************)
(* The /api/schools/[id] route handlers (PUT, GET, DELETE) of              *)
(* src/app/api/schools/[id]/route.ts running against the tables declared   *)
(* in src/lib/database.ts.                                                 *)
(*                                                                         *)
(* Every request is an async function: the code between two awaits that    *)
(* reach the store runs without interruption, and other requests (or a     *)
(* removal of a user row) may run at each such await.  A request therefore *)
(* advances in the steps                                                   *)
(*     Begin    cookie, verifyToken, parseInt(id), formData, validation    *)
(*     Connect  await pool.connect()                                       *)
(*     Select   await client.query(SELECT ...) and the checks after it     *)
(*     Update / Delete   await client.query(UPDATE/DELETE ...) and return  *)
(* and each step that returns a response leaves the request at "done"      *)
(* until the response is delivered (Finish).                               *)
(*                                                                         *)
(* Text is a sequence of one-character strings, so that parseInt and the   *)
(* e-mail regular expression are computed character by character.          *)
(*                                                                         *)
(* Four specifications share the variables:                                *)
(*     Spec         the route handlers, on an initialized database         *)
(*     StartupSpec  calls of initializeDatabase() of src/lib/database.ts   *)
(*     AuthSpec     register, verifyOtp, resendOtp and login, whose        *)
(*                  handlers are described in sections 4.1 to 4.3 of the   *)
(*                  specification of the application                       *)
(*     PageSpec     handleDeleteSchool of the SchoolsPage component,       *)
(*                  with the server's answers chosen freely                *)
(***************************************************************************)
EXTENDS Integers, Sequences, FiniteSets, TLC

\* ------------------------------------------------------------------ bounds
\* Requests that can be in flight at the same time.
NumProcs == 2
\* User ids handed out by app_users.id SERIAL before the model starts.
NumUsers == 2
\* How many school rows the schools.id SERIAL sequence hands out.
MaxSchoolId == 1
\* How far CURRENT_TIMESTAMP advances.
MaxTime == 2
\* How many OTP rows the otp_verifications.id SERIAL sequence hands out.
MaxOtpId == 2

Procs == 1..NumProcs
UserIds == 1..NumUsers
SchoolIds == 1..MaxSchoolId

\* ------------------------------------------------------------- the tables
\* created_by INTEGER REFERENCES app_users(id) ON DELETE SET NULL: the SQL
\* NULL of that column.  SERIAL ids start at 1, so 0 is no user's id.
NoUser == 0

\* The value formData.get() gives for a field the request does not carry,
\* and the SQL NULL of a text column: a text no input equals.
Null == <<"<null>">>

\* The place of a school id that has no row.
NoRow == [stored |-> FALSE, name |-> Null, address |-> Null, city |-> Null,
          state |-> Null, contact |-> 0, email_id |-> Null,
          created_by |-> NoUser]

VARIABLES
    schools,            \* [SchoolIds -> row or NoRow]: table schools
    nextSchoolId,       \* the next value of the schools.id sequence
    app_users,          \* the ids of the rows of table app_users
    otp_verifications,  \* the rows of table otp_verifications
    req,                \* [Procs -> the request each handler invocation runs]
    deletedOk,          \* the school ids a DELETE has answered success for
    isInitializing,     \* let isInitializing of lib/database.ts
    isInitialized,      \* let isInitialized of lib/database.ts
    created,            \* the schema objects that exist in the database
    call,               \* [Procs -> the initializeDatabase() call each runs]
    nextOtpId,          \* the next value of the otp_verifications.id sequence
    is_verified,        \* [UserIds -> app_users.is_verified]
    password_hash,      \* [UserIds -> app_users.password_hash]
    last_login,         \* [UserIds -> app_users.last_login]
    now,                \* CURRENT_TIMESTAMP
    sessions,           \* the session tokens issued, each by the user it names
    auth,               \* the last operation of the flow and its outcome
    schoolsState,       \* const [schools, setSchools] of SchoolsPage
    deleteLoading,      \* const [deleteLoading, setDeleteLoading]
    user,               \* const { user } = useAuth()
    handler             \* [Procs -> the handleDeleteSchool call each runs]

\* The state of initializeDatabase().
startupVars == <<isInitializing, isInitialized, created, call>>

\* The state of the registration, verification and login flow.
authVars == <<nextOtpId, is_verified, password_hash, last_login, now,
              sessions, auth>>

\* The state of the SchoolsPage component.
pageVars == <<schoolsState, deleteLoading, user, handler>>

vars == <<schools, nextSchoolId, app_users, otp_verifications, req, deletedOk,
          startupVars, authVars, pageVars>>

\* --------------------------------------------------------- pure functions
IsDigit(c) == c \in {"0", "1", "2", "3", "4", "5", "6", "7", "8", "9"}

DigitValue(c) ==
    CASE c = "0" -> 0 [] c = "1" -> 1 [] c = "2" -> 2 [] c = "3" -> 3
      [] c = "4" -> 4 [] c = "5" -> 5 [] c = "6" -> 6 [] c = "7" -> 7
      [] c = "8" -> 8 [] c = "9" -> 9

IsWhiteSpace(c) == c \in {" ", "\t", "\n"}

\* What parseInt and isNaN work on: NaN, or an integer.
NaN == [nan |-> TRUE, val |-> 0]

Num(n) == [nan |-> FALSE, val |-> n]

RECURSIVE SkipWhiteSpace(_, _)
SkipWhiteSpace(s, i) ==
    IF i <= Len(s) /\ IsWhiteSpace(s[i]) THEN SkipWhiteSpace(s, i + 1) ELSE i

RECURSIVE ReadDigits(_, _, _)
ReadDigits(s, i, acc) ==
    IF i <= Len(s) /\ IsDigit(s[i])
    THEN ReadDigits(s, i + 1, acc * 10 + DigitValue(s[i]))
    ELSE acc

\* JavaScript parseInt(s) with no radix, on texts that hold no "x" (no
\* hexadecimal prefix): leading white space is skipped, one sign is read,
\* then the longest run of decimal digits; NaN when that run is empty.
\* Whatever follows the digits is ignored.
ParseInt(s) ==
    LET i == SkipWhiteSpace(s, 1)
        signed == i <= Len(s) /\ s[i] \in {"-", "+"}
        negative == i <= Len(s) /\ s[i] = "-"
        j == IF signed THEN i + 1 ELSE i
    IN  IF j <= Len(s) /\ IsDigit(s[j])
        THEN Num((IF negative THEN -1 ELSE 1) * ReadDigits(s, j, 0))
        ELSE NaN

\* isNaN finding every value a number.
IsNaN_Never(x) == FALSE

IsNaN(x) == x.nan

\* JavaScript truthiness of a value that is null or a string.
Truthy(s) == s # Null /\ s # <<>>

\* The character class [^\s@] of emailRegex.
NotSpaceNotAt(c) == ~IsWhiteSpace(c) /\ c # "@"

\* EmailRegexTest with the dot and the part after it left out of the
\* pattern: /^[^\s@]+@[^\s@]+$/.
EmailRegexTest_NoDot(s) ==
    \E i \in 1..Len(s) :
        /\ s[i] = "@"
        /\ 1 < i
        /\ i < Len(s)
        /\ \A k \in 1..Len(s) : k # i => NotSpaceNotAt(s[k])

\* /^[^\s@]+@[^\s@]+\.[^\s@]+$/.test(s): the text splits as L @ D . T with
\* L, D and T non-empty runs of the class (which holds the dot).
EmailRegexTest(s) ==
    \E i \in 1..Len(s) : \E j \in 1..Len(s) :
        /\ s[i] = "@"
        /\ s[j] = "."
        /\ 1 < i
        /\ i + 1 < j
        /\ j < Len(s)
        /\ \A k \in 1..Len(s) : k \notin {i, j} => NotSpaceNotAt(s[k])

\* verifyToken of @/lib/auth: fails when the signature is wrong or the
\* token has expired, and otherwise gives the user id the token was
\* issued for.
VerifyToken(token) == [ok |-> token.authentic, userId |-> token.userId]

\* NextResponse.json(body, {status}); the body holds just the keys the
\* handler wrote.
Json(status, body) == [status |-> status, body |-> body]


\* ------------------------------------------------------------ the inputs
\* The auth-token cookie of a request: absent, present with an empty
\* value, or a token naming a user id, authentic (signed by this server and
\* not expired) or not.
TokenInputs ==
    {[cookie |-> c, userId |-> NoUser, authentic |-> FALSE] :
        c \in {"absent", "empty"}}
    \cup {[cookie |-> "jwt", userId |-> 1, authentic |-> FALSE]}
    \cup {[cookie |-> "jwt", userId |-> u, authentic |-> TRUE] : u \in UserIds}

DigitChars == <<"1", "2", "3", "4", "5", "6", "7", "8", "9">>

\* The {id} segment of the path: every id the sequence hands out (an id
\* has no row before its school is created and after it is deleted), and
\* texts parseInt reads as the first id or as no number.
IdInputs ==
    {<<DigitChars[n]>> : n \in SchoolIds}
    \cup {<<"a">>, <<"1", "a">>, <<"a", "1">>, <<>>}

FormA == [name |-> <<"N">>, address |-> <<"A">>, city |-> <<"C">>,
          state |-> <<"S">>, contact |-> <<"1">>,
          email_id |-> <<"a", "@", "b", ".", "c">>]

FormB == [name |-> <<"n">>, address |-> <<"a">>, city |-> <<"c">>,
          state |-> <<"s">>, contact |-> <<"2", "0">>,
          email_id |-> <<".", "@", ".", ".", ".">>]

FormKeys == {"name", "address", "city", "state", "contact", "email_id"}

\* Contacts that parseInt reads as FormA's, and contacts it rejects.
ContactInputs ==
    {<<"1", "a">>, <<" ", "+", "1">>, <<"1", ".", "5">>,
     <<"0">>, <<"-", "1">>, <<"a", "1">>, <<" ">>}

\* E-mail texts the regular expression rejects.
EmailInputs ==
    {<<"a", "@", "b">>, <<"a", "@", "b", ".">>, <<"@", "b", ".", "c">>,
     <<"a", "@", ".", "c">>, <<"a", "@", "@", "b", ".", "c">>,
     <<"a", "@", "b", ".", "c", " ">>}

\* The form data of a PUT: the two valid forms, and FormA with one field
\* absent, empty, or replaced by one of the texts above.
FormInputs ==
    {FormA, FormB}
    \cup {[FormA EXCEPT ![k] = v] : k \in FormKeys, v \in {Null, <<>>}}
    \cup {[FormA EXCEPT !.contact = c] : c \in ContactInputs}
    \cup {[FormA EXCEPT !.email_id = e] : e \in EmailInputs}

\* What a failing store call throws: the message of the underlying error.
StoreErrors == {"connect ETIMEDOUT"}

\* ------------------------------------------------ what a request is given
\* A record of the request as it arrived, kept beside the handler's own
\* variables so that its response can be compared with what was asked:
\*   token      "none" (GET reads no cookie), "absent", "invalid", "valid"
\*   idNumeric  the id starts (after white space and a sign) with a digit
\*   bodyValid  the six form fields are there and non-empty, the e-mail has
\*              the form local@domain.tld and the contact starts with a
\*              positive integer
\*   relation   of a valid token's user to the addressed school when the
\*              request began: "owner", "other" (the row was stored, with
\*              another created_by or none), "norow"; "none" without a
\*              valid token or a numeric id
\*   afterDelete  (GET) a DELETE had answered success for the addressed id
\*              when the request began
\*   thrown     the error a store call of this request threw, or "none"
\* d is the place of the first digit of the integer s starts with.
LeadingIntegerAt(s, d) ==
    /\ d \in 1..Len(s)
    /\ IsDigit(s[d])
    /\ \A k \in 1..(d - 1) :
          \/ IsWhiteSpace(s[k])
          \/ k = d - 1 /\ s[k] \in {"-", "+"}

HasLeadingInteger(s) == \E d \in 1..Len(s) : LeadingIntegerAt(s, d)

\* The integer s starts with has no minus sign and a digit that is not 0.
LeadsWithPositiveInteger(s) ==
    \E d \in 1..Len(s) :
        /\ LeadingIntegerAt(s, d)
        /\ (d = 1 \/ s[d - 1] # "-")
        /\ \E i \in d..Len(s) :
              /\ s[i] # "0"
              /\ \A k \in d..i : IsDigit(s[k])

BasicEmailForm(s) ==
    /\ Cardinality({i \in 1..Len(s) : s[i] = "@"}) = 1
    /\ \A i \in 1..Len(s) : ~IsWhiteSpace(s[i])
    /\ LET at == CHOOSE i \in 1..Len(s) : s[i] = "@"
       IN  /\ at > 1
           /\ \E d \in (at + 2)..(Len(s) - 1) : s[d] = "."

TokenClass(token) ==
    IF token.cookie = "absent" THEN "absent"
    ELSE IF token.cookie = "jwt" /\ token.authentic THEN "valid"
    ELSE "invalid"

NoInput == [token |-> "none", idNumeric |-> FALSE, bodyValid |-> FALSE,
            relation |-> "none", afterDelete |-> FALSE, thrown |-> "none"]

BodyValid(formData) ==
    /\ \A k \in FormKeys : formData[k] \notin {Null, <<>>}
    /\ BasicEmailForm(formData.email_id)
    /\ LeadsWithPositiveInteger(formData.contact)

Relation(token, id) ==
    IF TokenClass(token) # "valid" \/ ~HasLeadingInteger(id) THEN "none"
    ELSE LET n == ParseInt(id).val
         IN  IF n \notin SchoolIds \/ ~schools[n].stored THEN "norow"
             ELSE IF schools[n].created_by = token.userId THEN "owner"
             ELSE "other"

Arrived(token, id, formData) ==
    [token |-> TokenClass(token),
     idNumeric |-> HasLeadingInteger(id),
     bodyValid |-> BodyValid(formData),
     relation |-> Relation(token, id),
     afterDelete |-> FALSE,
     thrown |-> "none"]

\* ------------------------------------------------------------ the requests
NoForm == [name |-> Null, address |-> Null, city |-> Null, state |-> Null,
           contactNumber |-> 0, email_id |-> Null]

NoFormData == [k \in FormKeys |-> Null]

NoResponse == Json(0, [none |-> TRUE])

\* A handler that is not running.
Idle == [pc |-> "idle", method |-> "none", userId |-> NoUser, schoolId |-> 0,
         form |-> NoForm, client |-> "none", queries |-> 0, in |-> NoInput,
         resp |-> NoResponse]

\* ErrorBody with the message under the key message instead of error.
ErrorBody_MessageKey(msg) == [success |-> FALSE, message |-> msg]

\* { success: false, error: msg }
ErrorBody(msg) == [success |-> FALSE, error |-> msg]

\* CaughtResponse answering with the message of the error it caught.
CaughtResponse_Leaks(msg, e) == Json(500, [success |-> FALSE, error |-> e])

\* The response of a catch block: the error e it caught is logged with
\* console.error and the body is built from the fixed message alone.
CaughtResponse(msg, e) == Json(500, ErrorBody(msg))

\* return NextResponse.json(...): the handler is over, its response is out
\* and the form values it held are gone.
Return(r, response) ==
    [r EXCEPT !.pc = "done", !.resp = response, !.form = NoForm]

\* if (!token)
TokenMissing(token) == token.cookie # "jwt"

\* VerifyFailed with the catch block not returning: the handler goes on.
VerifyFailed_Swallowed(payload) == FALSE

\* try { payload = await verifyToken(token) } catch { return 401 }
VerifyFailed(payload) == ~payload.ok

\* ContactInvalid without the test contactNumber <= 0.
ContactInvalid_NaNOnly(contactNumber) == IsNaN(contactNumber)

\* isNaN(contactNumber) || contactNumber <= 0
ContactInvalid(contactNumber) == IsNaN(contactNumber) \/ contactNumber.val <= 0

\* !name || !address || !city || !state || !contact || !email_id
FieldMissing(formData) == \E k \in FormKeys : ~Truthy(formData[k])

\* NotCreator letting a school without an owner pass.
NotCreator_NullIsAnyone(created_by, userId) ==
    created_by # userId /\ created_by # NoUser

\* school.created_by !== userId
NotCreator(created_by, userId) == created_by # userId

\* The row of school id s, NoRow when there is none.
RowOf(s) == IF s \in SchoolIds THEN schools[s] ELSE NoRow

\* A row as a query returns it (s.* / RETURNING *).
RowData(s, row) ==
    [id |-> s, name |-> row.name, address |-> row.address, city |-> row.city,
     state |-> row.state, contact |-> row.contact, email_id |-> row.email_id,
     created_by |-> row.created_by]

\* UpdatedRow with email_id missing from the SET list.
UpdatedRow_KeepsEmail(row, form) ==
    [row EXCEPT !.name = form.name, !.address = form.address,
                !.city = form.city, !.state = form.state,
                !.contact = form.contactNumber]

\* UPDATE schools SET name = $1, address = $2, city = $3, state = $4,
\* contact = $5, email_id = $6 WHERE id = $7: the row after it.
UpdatedRow(row, form) ==
    [row EXCEPT !.name = form.name, !.address = form.address,
                !.city = form.city, !.state = form.state,
                !.contact = form.contactNumber, !.email_id = form.email_id]

\* DeletedRow of a statement that removes nothing.
DeletedRow_Kept(row) == row

\* DELETE FROM schools WHERE id = $1: what is left in the row's place.
DeletedRow(row) == NoRow

\* app_users.email of user u.
UserEmail(u) == <<"u", DigitChars[u]>>

\* ------------------------------------------------------------------- PUT
PUT_Begin(p) ==
    /\ req[p].pc = "idle"
    /\ \E token \in TokenInputs, id \in IdInputs, formData \in FormInputs :
         LET r == [Idle EXCEPT !.method = "PUT",
                               !.in = Arrived(token, id, formData)]
             payload == VerifyToken(token)
             schoolId == ParseInt(id)
             contactNumber == ParseInt(formData.contact)
         IN  req' = [req EXCEPT ![p] =
               IF TokenMissing(token)
               THEN Return(r, Json(401, ErrorBody("Authentication required")))
               ELSE IF VerifyFailed(payload)
               THEN Return(r, Json(401, ErrorBody("Invalid authentication token")))
               ELSE IF IsNaN(schoolId)
               THEN Return([r EXCEPT !.userId = payload.userId],
                           Json(400, ErrorBody("Invalid school ID")))
               ELSE IF FieldMissing(formData)
               THEN Return([r EXCEPT !.userId = payload.userId,
                                     !.schoolId = schoolId.val],
                           Json(400, ErrorBody("All fields are required")))
               ELSE IF ~EmailRegexTest(formData.email_id)
               THEN Return([r EXCEPT !.userId = payload.userId,
                                     !.schoolId = schoolId.val],
                           Json(400, ErrorBody("Invalid email format")))
               ELSE IF ContactInvalid(contactNumber)
               THEN Return([r EXCEPT !.userId = payload.userId,
                                     !.schoolId = schoolId.val],
                           Json(400, ErrorBody("Invalid contact number")))
               ELSE [r EXCEPT !.pc = "connect",
                              !.userId = payload.userId,
                              !.schoolId = schoolId.val,
                              !.form = [name |-> formData.name,
                                        address |-> formData.address,
                                        city |-> formData.city,
                                        state |-> formData.state,
                                        contactNumber |-> contactNumber.val,
                                        email_id |-> formData.email_id]]]
    /\ UNCHANGED <<startupVars, authVars, pageVars, schools, nextSchoolId, app_users, otp_verifications, deletedOk>>

\* const client = await pool.connect(), outside the inner try: a failure
\* is caught by the outer catch.
PUT_Connect(p) ==
    /\ req[p].pc = "connect"
    /\ req[p].method = "PUT"
    /\ \/ req' = [req EXCEPT ![p].pc = "select", ![p].client = "held"]
       \/ \E e \in StoreErrors :
            req' = [req EXCEPT ![p] =
                      Return([@ EXCEPT !.in.thrown = e],
                             CaughtResponse("Internal server error", e))]
    /\ UNCHANGED <<startupVars, authVars, pageVars, schools, nextSchoolId, app_users, otp_verifications, deletedOk>>

\* SELECT id, created_by FROM schools WHERE id = $1, and the two checks.
PUT_Select(p) ==
    /\ req[p].pc = "select"
    /\ req[p].method = "PUT"
    /\ \/ LET r == [req[p] EXCEPT !.queries = @ + 1]
              school == RowOf(r.schoolId)
          IN  req' = [req EXCEPT ![p] =
                IF ~school.stored
                THEN Return([r EXCEPT !.client = "released"],
                            Json(404, ErrorBody("School not found")))
                ELSE IF NotCreator(school.created_by, r.userId)
                THEN Return([r EXCEPT !.client = "released"],
                            Json(403, ErrorBody("You can only edit schools you created")))
                ELSE [r EXCEPT !.pc = "update"]]
       \/ \E e \in StoreErrors :
            req' = [req EXCEPT ![p] =
                      Return([@ EXCEPT !.queries = @ + 1, !.in.thrown = e,
                                       !.client = "released"],
                             CaughtResponse("Failed to update school", e))]
    /\ UNCHANGED <<startupVars, authVars, pageVars, schools, nextSchoolId, app_users, otp_verifications, deletedOk>>

\* UPDATE schools SET ... WHERE id = $7 RETURNING *, and the response.
PUT_Update(p) ==
    /\ req[p].pc = "update"
    /\ req[p].method = "PUT"
    /\ \/ LET r == [req[p] EXCEPT !.queries = @ + 1, !.client = "released"]
              s == r.schoolId
          IN  IF RowOf(s).stored
              THEN /\ schools' = [schools EXCEPT ![s] = UpdatedRow(@, r.form)]
                   /\ req' = [req EXCEPT ![p] =
                        Return(r, Json(200,
                          [success |-> TRUE,
                           message |-> "School updated successfully",
                           data |-> RowData(s, UpdatedRow(schools[s], r.form))]))]
              ELSE /\ schools' = schools
                   /\ req' = [req EXCEPT ![p] =
                        Return(r, Json(500, ErrorBody("Failed to update school")))]
       \/ /\ \E e \in StoreErrors :
               req' = [req EXCEPT ![p] =
                         Return([@ EXCEPT !.queries = @ + 1, !.in.thrown = e,
                                          !.client = "released"],
                                CaughtResponse("Failed to update school", e))]
          /\ schools' = schools
    /\ UNCHANGED <<startupVars, authVars, pageVars, nextSchoolId, app_users, otp_verifications, deletedOk>>

\* ------------------------------------------------------------------- GET
GET_Begin(p) ==
    /\ req[p].pc = "idle"
    /\ \E id \in IdInputs :
         LET r == [Idle EXCEPT !.method = "GET",
                               !.in = [Arrived([cookie |-> "absent",
                                                userId |-> NoUser,
                                                authentic |-> FALSE],
                                               id, NoFormData)
                                       EXCEPT !.token = "none",
                                              !.afterDelete =
                                                 /\ HasLeadingInteger(id)
                                                 /\ ParseInt(id).val \in deletedOk]]
             schoolId == ParseInt(id)
         IN  req' = [req EXCEPT ![p] =
               IF IsNaN(schoolId)
               THEN Return(r, Json(400, ErrorBody("Invalid school ID")))
               ELSE [r EXCEPT !.pc = "connect", !.schoolId = schoolId.val]]
    /\ UNCHANGED <<startupVars, authVars, pageVars, schools, nextSchoolId, app_users, otp_verifications, deletedOk>>

\* const client = await pool.connect()
GET_Connect(p) ==
    /\ req[p].pc = "connect"
    /\ req[p].method = "GET"
    /\ \/ req' = [req EXCEPT ![p].pc = "select", ![p].client = "held"]
       \/ \E e \in StoreErrors :
            req' = [req EXCEPT ![p] =
                      Return([@ EXCEPT !.in.thrown = e],
                             CaughtResponse("Failed to fetch school", e))]
    /\ UNCHANGED <<startupVars, authVars, pageVars, schools, nextSchoolId, app_users, otp_verifications, deletedOk>>

\* SELECT s.*, u.email as created_by_email FROM schools s LEFT JOIN
\* app_users u ON s.created_by = u.id WHERE s.id = $1, and the response.
\* The query is in no try of its own: when it throws, the handler's one
\* catch answers and client.release() is not reached.
GET_Select(p) ==
    /\ req[p].pc = "select"
    /\ req[p].method = "GET"
    /\ \/ LET r == [req[p] EXCEPT !.queries = @ + 1, !.client = "released"]
              s == r.schoolId
              row == RowOf(s)
          IN  req' = [req EXCEPT ![p] =
                IF ~row.stored
                THEN Return(r, Json(404, ErrorBody("School not found")))
                ELSE Return(r, Json(200,
                       [success |-> TRUE,
                        data |-> [row |-> RowData(s, row),
                                  created_by_email |->
                                     IF row.created_by \in app_users
                                     THEN UserEmail(row.created_by)
                                     ELSE Null]]))]
       \/ \E e \in StoreErrors :
            req' = [req EXCEPT ![p] =
                      Return([@ EXCEPT !.queries = @ + 1, !.in.thrown = e],
                             CaughtResponse("Failed to fetch school", e))]
    /\ UNCHANGED <<startupVars, authVars, pageVars, schools, nextSchoolId, app_users, otp_verifications, deletedOk>>

\* ---------------------------------------------------------------- DELETE
DELETE_Begin(p) ==
    /\ req[p].pc = "idle"
    /\ \E token \in TokenInputs, id \in IdInputs :
         LET r == [Idle EXCEPT !.method = "DELETE",
                               !.in = Arrived(token, id, NoFormData)]
             payload == VerifyToken(token)
             schoolId == ParseInt(id)
         IN  req' = [req EXCEPT ![p] =
               IF TokenMissing(token)
               THEN Return(r, Json(401, ErrorBody("Authentication required")))
               ELSE IF VerifyFailed(payload)
               THEN Return(r, Json(401, ErrorBody("Invalid authentication token")))
               ELSE IF IsNaN(schoolId)
               THEN Return([r EXCEPT !.userId = payload.userId],
                           Json(400, ErrorBody("Invalid school ID")))
               ELSE [r EXCEPT !.pc = "connect",
                              !.userId = payload.userId,
                              !.schoolId = schoolId.val]]
    /\ UNCHANGED <<startupVars, authVars, pageVars, schools, nextSchoolId, app_users, otp_verifications, deletedOk>>

\* const client = await pool.connect(), outside the inner try.
DELETE_Connect(p) ==
    /\ req[p].pc = "connect"
    /\ req[p].method = "DELETE"
    /\ \/ req' = [req EXCEPT ![p].pc = "select", ![p].client = "held"]
       \/ \E e \in StoreErrors :
            req' = [req EXCEPT ![p] =
                      Return([@ EXCEPT !.in.thrown = e],
                             CaughtResponse("Internal server error", e))]
    /\ UNCHANGED <<startupVars, authVars, pageVars, schools, nextSchoolId, app_users, otp_verifications, deletedOk>>

\* SELECT id, created_by FROM schools WHERE id = $1, and the two checks.
DELETE_Select(p) ==
    /\ req[p].pc = "select"
    /\ req[p].method = "DELETE"
    /\ \/ LET r == [req[p] EXCEPT !.queries = @ + 1]
              school == RowOf(r.schoolId)
          IN  req' = [req EXCEPT ![p] =
                IF ~school.stored
                THEN Return([r EXCEPT !.client = "released"],
                            Json(404, ErrorBody("School not found")))
                ELSE IF NotCreator(school.created_by, r.userId)
                THEN Return([r EXCEPT !.client = "released"],
                            Json(403, ErrorBody("You can only delete schools you created")))
                ELSE [r EXCEPT !.pc = "delete"]]
       \/ \E e \in StoreErrors :
            req' = [req EXCEPT ![p] =
                      Return([@ EXCEPT !.queries = @ + 1, !.in.thrown = e,
                                       !.client = "released"],
                             CaughtResponse("Failed to delete school", e))]
    /\ UNCHANGED <<startupVars, authVars, pageVars, schools, nextSchoolId, app_users, otp_verifications, deletedOk>>

\* DELETE FROM schools WHERE id = $1, and the response.
DELETE_Delete(p) ==
    /\ req[p].pc = "delete"
    /\ req[p].method = "DELETE"
    /\ \/ LET r == [req[p] EXCEPT !.queries = @ + 1, !.client = "released"]
              s == r.schoolId
          IN  IF RowOf(s).stored
              THEN /\ schools' = [schools EXCEPT ![s] = DeletedRow(@)]
                   /\ req' = [req EXCEPT ![p] =
                        Return(r, Json(200,
                          [success |-> TRUE,
                           message |-> "School deleted successfully"]))]
                   /\ deletedOk' = deletedOk \cup {s}
              ELSE /\ schools' = schools
                   /\ req' = [req EXCEPT ![p] =
                        Return(r, Json(500, ErrorBody("Failed to delete school")))]
                   /\ deletedOk' = deletedOk
       \/ /\ \E e \in StoreErrors :
               req' = [req EXCEPT ![p] =
                         Return([@ EXCEPT !.queries = @ + 1, !.in.thrown = e,
                                          !.client = "released"],
                                CaughtResponse("Failed to delete school", e))]
          /\ schools' = schools
          /\ deletedOk' = deletedOk
    /\ UNCHANGED <<startupVars, authVars, pageVars, nextSchoolId, app_users, otp_verifications>>

\* The response of a handler that has returned is delivered; the handler
\* can serve the next request.
Finish(p) ==
    /\ req[p].pc = "done"
    /\ req' = [req EXCEPT ![p] = Idle]
    /\ UNCHANGED <<startupVars, authVars, pageVars, schools, nextSchoolId, app_users, otp_verifications, deletedOk>>

\* ---------------------------------------------------- the rest of the store
\* OnDeleteUserSchool of a foreign key declared ON DELETE CASCADE.
OnDeleteUserSchool_Cascade(row, u) ==
    IF row.stored /\ row.created_by = u THEN NoRow ELSE row

\* schools.created_by ... ON DELETE SET NULL: what the removal of user u
\* makes of a school row.
OnDeleteUserSchool(row, u) ==
    IF row.stored /\ row.created_by = u
    THEN [row EXCEPT !.created_by = NoUser]
    ELSE row

\* otp_verifications.user_id ... ON DELETE CASCADE: the OTP rows left when
\* user u is removed.
OnDeleteUserOtps(otps, u) == {o \in otps : o.user_id # u}

\* DELETE FROM app_users WHERE id = u, with the two foreign keys' actions.
RemoveUser(u) ==
    /\ u \in app_users
    /\ app_users' = app_users \ {u}
    /\ schools' = [s \in SchoolIds |-> OnDeleteUserSchool(schools[s], u)]
    /\ otp_verifications' = OnDeleteUserOtps(otp_verifications, u)
    /\ UNCHANGED <<startupVars, authVars, pageVars, nextSchoolId, req, deletedOk>>

\* createSchool(fields, ownerId) of POST /schools: the fields are validated
\* as in PUT and a row owned by ownerId is inserted under the next id of
\* the sequence.
CreateSchool(ownerId, formData) ==
    /\ nextSchoolId <= MaxSchoolId
    /\ ownerId \in app_users
    /\ ~FieldMissing(formData)
    /\ EmailRegexTest(formData.email_id)
    /\ ~ContactInvalid(ParseInt(formData.contact))
    /\ schools' = [schools EXCEPT ![nextSchoolId] =
                     [stored |-> TRUE, name |-> formData.name,
                      address |-> formData.address, city |-> formData.city,
                      state |-> formData.state,
                      contact |-> ParseInt(formData.contact).val,
                      email_id |-> formData.email_id,
                      created_by |-> ownerId]]
    /\ nextSchoolId' = nextSchoolId + 1
    /\ UNCHANGED <<startupVars, authVars, pageVars, app_users, otp_verifications, req, deletedOk>>

\* ---------------------------------------------------- initializeDatabase
\* The statements of initializeDatabase() in the order it issues them, each
\* named by the object it creates: createUsersTable, createOtpTable,
\* createSchoolsTable, createUpdateFunction, createUsersTrigger,
\* createSchoolsTrigger.
SchemaStatements ==
    <<"app_users", "otp_verifications", "schools",
      "update_updated_at_column", "update_app_users_updated_at",
      "update_schools_updated_at">>

SchemaObjects == {SchemaStatements[k] : k \in 1..Len(SchemaStatements)}

\* A call of initializeDatabase() that is not running.  in records the two
\* flags as the call found them; statements counts the client.query calls
\* it has made; next is the statement it issues next.
NoCall == [pc |-> "idle", client |-> "none", next |-> 0, statements |-> 0,
           in |-> [isInitialized |-> FALSE, isInitializing |-> FALSE],
           thrown |-> "none"]

\* AlreadyStarted looking at isInitializing alone.
AlreadyStarted_InitializingOnly(initialized, initializing) == initializing

\* if (isInitialized || isInitializing) return;
AlreadyStarted(initialized, initializing) == initialized \/ initializing

\* The call begins: the guard, and isInitializing = true.
initializeDatabase_Begin(p) ==
    /\ call[p].pc = "idle"
    /\ LET c == [NoCall EXCEPT !.in = [isInitialized |-> isInitialized,
                                       isInitializing |-> isInitializing]]
       IN  IF AlreadyStarted(isInitialized, isInitializing)
           THEN /\ call' = [call EXCEPT ![p] = [c EXCEPT !.pc = "returned"]]
                /\ UNCHANGED isInitializing
           ELSE /\ call' = [call EXCEPT ![p] = [c EXCEPT !.pc = "connect"]]
                /\ isInitializing' = TRUE
    /\ UNCHANGED <<isInitialized, created>>
    /\ UNCHANGED <<schools, nextSchoolId, app_users, otp_verifications, req,
                   deletedOk, authVars, pageVars>>

\* const client = await pool.connect(), before the try: when it throws, the
\* call rejects and neither the catch nor the finally runs.
initializeDatabase_Connect(p) ==
    /\ call[p].pc = "connect"
    /\ \/ call' = [call EXCEPT ![p].pc = "query", ![p].client = "held",
                               ![p].next = 1]
       \/ \E e \in StoreErrors :
            call' = [call EXCEPT ![p].pc = "threw", ![p].thrown = e]
    /\ UNCHANGED <<isInitializing, isInitialized, created>>
    /\ UNCHANGED <<schools, nextSchoolId, app_users, otp_verifications, req,
                   deletedOk, authVars, pageVars>>

\* await client.query(...) of the next statement.  After the last one
\* isInitialized = true; when one throws the catch rethrows; either way the
\* finally sets isInitializing = false and releases the client.
initializeDatabase_Query(p) ==
    /\ call[p].pc = "query"
    /\ LET k == call[p].next
           c == [call[p] EXCEPT !.statements = @ + 1]
       IN  \/ /\ created' = created \cup {SchemaStatements[k]}
              /\ IF k < Len(SchemaStatements)
                 THEN /\ call' = [call EXCEPT ![p] = [c EXCEPT !.next = k + 1]]
                      /\ UNCHANGED <<isInitializing, isInitialized>>
                 ELSE /\ isInitialized' = TRUE
                      /\ isInitializing' = FALSE
                      /\ call' = [call EXCEPT ![p] =
                                    [c EXCEPT !.pc = "returned",
                                              !.client = "released"]]
           \/ /\ \E e \in StoreErrors :
                   call' = [call EXCEPT ![p] =
                              [c EXCEPT !.pc = "threw", !.thrown = e,
                                        !.client = "released"]]
              /\ isInitializing' = FALSE
              /\ UNCHANGED <<isInitialized, created>>
    /\ UNCHANGED <<schools, nextSchoolId, app_users, otp_verifications, req,
                   deletedOk, authVars, pageVars>>

\* The caller has the outcome of the call (initializeDatabase()
\* .catch(console.error) of the module itself) and may call again.
initializeDatabase_Settled(p) ==
    /\ call[p].pc \in {"returned", "threw"}
    /\ call' = [call EXCEPT ![p] = NoCall]
    /\ UNCHANGED <<isInitializing, isInitialized, created>>
    /\ UNCHANGED <<schools, nextSchoolId, app_users, otp_verifications, req,
                   deletedOk, authVars, pageVars>>

\* ------------------------------- registration, verification and login
\* The flow of spec sections 4.1 to 4.3.  The user of UserIds[u] is the one
\* who registers with the u-th e-mail address; each operation is one step.

\* The expiry window of an OTP record, in ticks of the clock.
OtpTtl == 1

\* The SQL NULL of last_login.
NoTime == -1

\* The numeric codes the generator can draw.
OtpCodes == {<<"1">>, <<"2">>}

\* The passwords a client can type.
Passwords == {<<"p">>, <<"q">>}

\* hashPassword(plaintext), and the hash stored for an OTP.
HashPassword(plaintext) == <<"hash">> \o plaintext

\* verifyPassword(plaintext, hash)
VerifyPassword(plaintext, hash) == HashPassword(plaintext) = hash

\* The OTP records of user u.
OtpsOf(u) == {o \in otp_verifications : o.user_id = u}

\* NewestOtp taking the first record of the user instead of the last.
NewestOtp_Oldest(u) ==
    CHOOSE o \in OtpsOf(u) : \A x \in OtpsOf(u) : o.id <= x.id

\* The newest OTP record of user u: ids and created_at grow together.
NewestOtp(u) == CHOOSE o \in OtpsOf(u) : \A x \in OtpsOf(u) : x.id <= o.id

\* PastExpiry that never finds a record expired.
PastExpiry_Never(o) == FALSE

\* The record o is past its expiry.
PastExpiry(o) == now > o.expires_at

\* The request of an operation as it arrived: whether the user was pending,
\* the user's OTP records that carry the supplied code, those past their
\* expiry, the newest one, and whether the supplied password is the user's.
NoAuthInput == [pending |-> FALSE, matches |-> {}, expired |-> {},
                newest |-> 0, passwordOk |-> FALSE]

NoAuth == [op |-> "none", user |-> NoUser, outcome |-> "none",
           in |-> NoAuthInput]

AuthArrived(u, code, password) ==
    [pending |-> u \in app_users /\ ~is_verified[u],
     matches |-> {o.id : o \in {x \in OtpsOf(u) :
                                   x.otp_hash = HashPassword(code)}},
     expired |-> {o.id : o \in {x \in OtpsOf(u) : now > x.expires_at}},
     newest |-> LET ids == {o.id : o \in OtpsOf(u)}
                IN  IF ids = {} THEN 0
                    ELSE CHOOSE i \in ids : \A j \in ids : j <= i,
     passwordOk |-> u \in app_users
                    /\ HashPassword(password) = password_hash[u]]

Outcome(op, u, outcome, code, password) ==
    [op |-> op, user |-> u, outcome |-> outcome,
     in |-> AuthArrived(u, code, password)]

\* A new OTP record for user u is stored and its code handed to the mail
\* transport, which delivers it or fails (DeliveryFailed); the record
\* stays either way.
IssueOtp(op, u, code, password) ==
    /\ nextOtpId <= MaxOtpId
    /\ otp_verifications' = otp_verifications \cup
          {[id |-> nextOtpId, user_id |-> u, otp_hash |-> HashPassword(code),
            expires_at |-> now + OtpTtl, created_at |-> now]}
    /\ nextOtpId' = nextOtpId + 1
    /\ \/ auth' = Outcome(op, u, "ok", code, password)
       \/ auth' = Outcome(op, u, "DeliveryFailed", code, password)

\* register(email, password)
register(u, password) ==
    /\ IF u \in app_users
       THEN /\ auth' = Outcome("register", u, "DuplicateEmail", <<>>, password)
            /\ UNCHANGED <<app_users, otp_verifications, nextOtpId,
                           is_verified, password_hash>>
       ELSE /\ app_users' = app_users \cup {u}
            /\ is_verified' = [is_verified EXCEPT ![u] = FALSE]
            /\ password_hash' =
                  [password_hash EXCEPT ![u] = HashPassword(password)]
            /\ \E code \in OtpCodes : IssueOtp("register", u, code, password)
    /\ UNCHANGED <<last_login, now, sessions>>
    /\ UNCHANGED <<schools, nextSchoolId, req, deletedOk, startupVars, pageVars>>

\* verifyOtp(email, code)
verifyOtp(u, code) ==
    /\ LET out(o) == auth' = Outcome("verifyOtp", u, o, code, <<>>)
       IN  IF u \notin app_users
           THEN out("NotFound") /\ UNCHANGED is_verified
           ELSE IF PastExpiry(NewestOtp(u))
           THEN out("OtpExpired") /\ UNCHANGED is_verified
           ELSE IF NewestOtp(u).otp_hash # HashPassword(code)
           THEN out("OtpMismatch") /\ UNCHANGED is_verified
           ELSE IF is_verified[u]
           THEN out("AlreadyVerified") /\ UNCHANGED is_verified
           ELSE /\ out("ok")
                /\ is_verified' = [is_verified EXCEPT ![u] = TRUE]
    /\ UNCHANGED <<app_users, otp_verifications, nextOtpId, password_hash,
                   last_login, now, sessions>>
    /\ UNCHANGED <<schools, nextSchoolId, req, deletedOk, startupVars, pageVars>>

\* resendOtp(email)
resendOtp(u) ==
    /\ IF u \notin app_users
       THEN /\ auth' = Outcome("resendOtp", u, "NotFound", <<>>, <<>>)
            /\ UNCHANGED <<otp_verifications, nextOtpId>>
       ELSE IF is_verified[u]
       THEN /\ auth' = Outcome("resendOtp", u, "AlreadyVerified", <<>>, <<>>)
            /\ UNCHANGED <<otp_verifications, nextOtpId>>
       ELSE \E code \in OtpCodes : IssueOtp("resendOtp", u, code, <<>>)
    /\ UNCHANGED <<app_users, is_verified, password_hash, last_login, now,
                   sessions>>
    /\ UNCHANGED <<schools, nextSchoolId, req, deletedOk, startupVars, pageVars>>

\* login checking the password before the verified flag.
LoginOutcome_PasswordFirst(registered, verified, passwordOk) ==
    IF ~registered THEN "NotFound"
    ELSE IF ~passwordOk THEN "BadCredentials"
    ELSE IF ~verified THEN "NotVerified"
    ELSE "ok"

\* The checks of login in their order.
LoginOutcome(registered, verified, passwordOk) ==
    IF ~registered THEN "NotFound"
    ELSE IF ~verified THEN "NotVerified"
    ELSE IF ~passwordOk THEN "BadCredentials"
    ELSE "ok"

\* login(email, password)
login(u, password) ==
    /\ LET outcome == LoginOutcome(u \in app_users, is_verified[u],
                         VerifyPassword(password, password_hash[u]))
       IN  /\ auth' = Outcome("login", u, outcome, <<>>, password)
           /\ IF outcome = "ok"
              THEN /\ sessions' = sessions \cup {u}
                   /\ last_login' = [last_login EXCEPT ![u] = now]
              ELSE UNCHANGED <<sessions, last_login>>
    /\ UNCHANGED <<app_users, otp_verifications, nextOtpId, is_verified,
                   password_hash, now>>
    /\ UNCHANGED <<schools, nextSchoolId, req, deletedOk, startupVars, pageVars>>

\* Time passes.
Tick ==
    /\ now < MaxTime
    /\ now' = now + 1
    /\ UNCHANGED <<app_users, otp_verifications, nextOtpId, is_verified,
                   password_hash, last_login, sessions, auth>>
    /\ UNCHANGED <<schools, nextSchoolId, req, deletedOk, startupVars, pageVars>>

\* ------------------------------------------------------------ SchoolsPage
\* handleDeleteSchool of the SchoolsPage component.  The handler reads user
\* and schools as rendered when it is called; setSchools with an updater
\* function applies to the list as it is when the update runs.

\* The null of deleteLoading, and a school id no school has.
NoSchoolId == 0

\* The values of created_by_email: the e-mail of a user, or null.
CreatorEmails == {UserEmail(u) : u \in UserIds} \cup {Null}

\* The schools GET /api/schools can return.
ListItems == [id : SchoolIds, name : {<<"N">>}, created_by_email : CreatorEmails]

\* The lists GET /api/schools can return: no id twice.
ListInputs ==
    {l \in UNION {[1..n -> ListItems] : n \in 0..MaxSchoolId} :
        \A i, j \in DOMAIN l : i # j => l[i].id # l[j].id}

\* The ids a click can pass to the handler.
PageIdInputs == {-1, 0} \cup (1..(MaxSchoolId + 1))

\* What await fetch(...) gives: the timer aborts it, the network fails, or a
\* response arrives; parses says whether response.json() can read the body
\* and success is the body's success.
NoFetch == [kind |-> "none", status |-> 0, parses |-> FALSE, success |-> FALSE]

FetchOutcomes ==
    {[NoFetch EXCEPT !.kind = "abort"], [NoFetch EXCEPT !.kind = "network"]}
    \cup {[kind |-> "http", status |-> s, parses |-> TRUE, success |-> FALSE] :
            s \in {200, 400, 401, 403, 404, 500}}
    \cup {[kind |-> "http", status |-> 200, parses |-> TRUE, success |-> TRUE],
          [kind |-> "http", status |-> 200, parses |-> FALSE, success |-> FALSE]}

\* The click as it arrived: whether a user was logged in, whether the list
\* showed the school, whether the user was its creator, and the answer to
\* the confirmation.
NoPageInput == [loggedIn |-> FALSE, listed |-> FALSE, creator |-> FALSE,
                confirmed |-> FALSE]

PageArrived(schoolId, answer) ==
    [loggedIn |-> user # NoUser,
     listed |-> \E i \in DOMAIN schoolsState : schoolsState[i].id = schoolId,
     creator |-> /\ user # NoUser
                 /\ \E i \in DOMAIN schoolsState :
                       /\ schoolsState[i].id = schoolId
                       /\ schoolsState[i].created_by_email = UserEmail(user),
     confirmed |-> answer]

\* A handleDeleteSchool call that is not running.  sent says whether
\* fetch was called; toast is the message shown, pushed the route
\* router.push was given.
NoHandler == [pc |-> "idle", schoolId |-> NoSchoolId, in |-> NoPageInput,
              sent |-> FALSE, response |-> NoFetch, toast |-> "none",
              pushed |-> "none"]

\* schools.find(school => school.id === schoolId): the places of the list
\* that hold the school.
Find(list, schoolId) == {i \in DOMAIN list : list[i].id = schoolId}

\* prevSchools.filter(school => school.id !== schoolId)
Filter(list, schoolId) ==
    LET Keep(school) == school.id # schoolId IN SelectSeq(list, Keep)

\* response.ok
ResponseOk(status) == status >= 200 /\ status <= 299

\* ResultSuccess taking every parsed body for a success.
ResultSuccess_Always(response) == TRUE

\* if (result.success)
ResultSuccess(response) == response.success

\* The message thrown for a response that is not ok.
NotOkMessage(status) ==
    IF status = 401 THEN "You are not authorized to delete this school"
    ELSE IF status = 404 THEN "School not found or already deleted"
    ELSE IF status = 403 THEN "You can only delete schools you created"
    ELSE IF status >= 500 THEN "Server error occurred. Please try again later."
    ELSE "Delete failed with status"

\* The handler ends: its toast is shown.
Ended(h, toast) == [h EXCEPT !.pc = "done", !.toast = toast]

\* The guards of the handler, the confirmation, setDeleteLoading(schoolId)
\* and the call of fetch.
handleDeleteSchool_Begin(p) ==
    /\ handler[p].pc = "idle"
    /\ \E schoolId \in PageIdInputs, answer \in BOOLEAN :
         LET h == [NoHandler EXCEPT !.schoolId = schoolId,
                                    !.in = PageArrived(schoolId, answer)]
             found == Find(schoolsState, schoolId)
             blocked(toast) ==
                 /\ handler' = [handler EXCEPT ![p] = Ended(h, toast)]
                 /\ UNCHANGED deleteLoading
         IN  IF schoolId = 0 \/ schoolId <= 0
             THEN blocked("Invalid school ID")
             ELSE IF user = NoUser
             THEN /\ handler' = [handler EXCEPT ![p] =
                       Ended([h EXCEPT !.pushed = "/login"],
                             "You must be logged in to delete schools")]
                  /\ UNCHANGED deleteLoading
             ELSE IF found = {}
             THEN blocked("School not found")
             ELSE LET schoolToDelete ==
                          schoolsState[CHOOSE i \in found :
                                          \A k \in found : i <= k]
                  IN  IF schoolToDelete.created_by_email # UserEmail(user)
                      THEN blocked("You can only delete schools you created")
                      ELSE IF ~answer
                      THEN blocked("none")
                      ELSE /\ deleteLoading' = schoolId
                           /\ handler' = [handler EXCEPT ![p] =
                                 [h EXCEPT !.pc = "fetch", !.sent = TRUE]]
    /\ UNCHANGED <<schoolsState, user>>
    /\ UNCHANGED <<schools, nextSchoolId, app_users, otp_verifications, req,
                   deletedOk, startupVars, authVars>>

\* await fetch(...) settles: the abort of the 15 s timer or a network
\* failure rejects it; a response that is not ok makes the handler throw.
\* The catch shows the message and the finally runs
\* setDeleteLoading(null).  An ok response goes on to response.json().
handleDeleteSchool_Fetch(p) ==
    /\ handler[p].pc = "fetch"
    /\ \E o \in FetchOutcomes :
         LET h == [handler[p] EXCEPT !.response = o]
             caught(toast) ==
                 /\ handler' = [handler EXCEPT ![p] = Ended(h, toast)]
                 /\ deleteLoading' = NoSchoolId
         IN  IF o.kind = "abort"
             THEN caught("Delete operation timed out. Please try again.")
             ELSE IF o.kind = "network"
             THEN caught("Failed to fetch")
             ELSE IF ~ResponseOk(o.status)
             THEN caught(NotOkMessage(o.status))
             ELSE /\ handler' = [handler EXCEPT ![p] = [h EXCEPT !.pc = "json"]]
                  /\ UNCHANGED deleteLoading
    /\ UNCHANGED <<schoolsState, user>>
    /\ UNCHANGED <<schools, nextSchoolId, app_users, otp_verifications, req,
                   deletedOk, startupVars, authVars>>

\* await response.json() settles, the list is filtered on success, and the
\* finally runs setDeleteLoading(null).
handleDeleteSchool_Json(p) ==
    /\ handler[p].pc = "json"
    /\ LET h == handler[p]
       IN  IF ~h.response.parses
           THEN /\ handler' = [handler EXCEPT ![p] =
                     Ended(h, "Unexpected token in JSON")]
                /\ UNCHANGED schoolsState
           ELSE IF ResultSuccess(h.response)
           THEN /\ schoolsState' = Filter(schoolsState, h.schoolId)
                /\ handler' = [handler EXCEPT ![p] =
                     Ended(h, "deleted successfully!")]
           ELSE /\ handler' = [handler EXCEPT ![p] =
                     Ended(h, "Failed to delete school")]
                /\ UNCHANGED schoolsState
    /\ deleteLoading' = NoSchoolId
    /\ UNCHANGED user
    /\ UNCHANGED <<schools, nextSchoolId, app_users, otp_verifications, req,
                   deletedOk, startupVars, authVars>>

\* The call is over; the button can be clicked again.
handleDeleteSchool_Settled(p) ==
    /\ handler[p].pc = "done"
    /\ handler' = [handler EXCEPT ![p] = NoHandler]
    /\ UNCHANGED <<schoolsState, deleteLoading, user>>
    /\ UNCHANGED <<schools, nextSchoolId, app_users, otp_verifications, req,
                   deletedOk, startupVars, authVars>>

\* fetchSchools on its success path: setSchools(result.data).
fetchSchools(data) ==
    /\ schoolsState' = data
    /\ schoolsState' # schoolsState
    /\ UNCHANGED <<deleteLoading, user, handler>>
    /\ UNCHANGED <<schools, nextSchoolId, app_users, otp_verifications, req,
                   deletedOk, startupVars, authVars>>

\* The AuthContext gives the page another user: a login, or a logout.
useAuth(u) ==
    /\ user' = u
    /\ user' # user
    /\ UNCHANGED <<schoolsState, deleteLoading, handler>>
    /\ UNCHANGED <<schools, nextSchoolId, app_users, otp_verifications, req,
                   deletedOk, startupVars, authVars>>

\* ----------------------------------------------------- the specification
\* The tables are created empty; both users have registered, each with the
\* OTP row of its registration; no request is running.
Init ==
    /\ schools = [s \in SchoolIds |-> NoRow]
    /\ nextSchoolId = 1
    /\ app_users = UserIds
    /\ otp_verifications =
          {[id |-> u, user_id |-> u, otp_hash |-> HashPassword(<<"1">>),
            expires_at |-> OtpTtl, created_at |-> 0] : u \in UserIds}
    /\ req = [p \in Procs |-> Idle]
    /\ deletedOk = {}
    /\ isInitializing = FALSE
    /\ isInitialized = TRUE
    /\ created = SchemaObjects
    /\ call = [p \in Procs |-> NoCall]
    /\ nextOtpId = NumUsers + 1
    /\ is_verified = [u \in UserIds |-> TRUE]
    /\ password_hash = [u \in UserIds |-> HashPassword(<<"p">>)]
    /\ last_login = [u \in UserIds |-> 0]
    /\ now = 0
    /\ sessions = UserIds
    /\ auth = NoAuth
    /\ schoolsState = <<>>
    /\ deleteLoading = NoSchoolId
    /\ user = NoUser
    /\ handler = [p \in Procs |-> NoHandler]

Next ==
    \/ \E p \in Procs : PUT_Begin(p)
    \/ \E p \in Procs : PUT_Connect(p)
    \/ \E p \in Procs : PUT_Select(p)
    \/ \E p \in Procs : PUT_Update(p)
    \/ \E p \in Procs : GET_Begin(p)
    \/ \E p \in Procs : GET_Connect(p)
    \/ \E p \in Procs : GET_Select(p)
    \/ \E p \in Procs : DELETE_Begin(p)
    \/ \E p \in Procs : DELETE_Connect(p)
    \/ \E p \in Procs : DELETE_Select(p)
    \/ \E p \in Procs : DELETE_Delete(p)
    \/ \E p \in Procs : Finish(p)
    \/ \E u \in UserIds : RemoveUser(u)
    \/ \E u \in UserIds, formData \in FormInputs : CreateSchool(u, formData)

Spec == Init /\ [][Next]_vars

\* The module lib/database.ts has just been loaded: nothing is initialized,
\* the database has no schema object and no request is served.
StartupInit ==
    /\ schools = [s \in SchoolIds |-> NoRow]
    /\ nextSchoolId = 1
    /\ app_users = {}
    /\ otp_verifications = {}
    /\ req = [p \in Procs |-> Idle]
    /\ deletedOk = {}
    /\ isInitializing = FALSE
    /\ isInitialized = FALSE
    /\ created = {}
    /\ call = [p \in Procs |-> NoCall]
    /\ nextOtpId = 1
    /\ is_verified = [u \in UserIds |-> FALSE]
    /\ password_hash = [u \in UserIds |-> Null]
    /\ last_login = [u \in UserIds |-> NoTime]
    /\ now = 0
    /\ sessions = {}
    /\ auth = NoAuth
    /\ schoolsState = <<>>
    /\ deleteLoading = NoSchoolId
    /\ user = NoUser
    /\ handler = [p \in Procs |-> NoHandler]

StartupNext ==
    \/ \E p \in Procs : initializeDatabase_Begin(p)
    \/ \E p \in Procs : initializeDatabase_Connect(p)
    \/ \E p \in Procs : initializeDatabase_Query(p)
    \/ \E p \in Procs : initializeDatabase_Settled(p)

StartupSpec == StartupInit /\ [][StartupNext]_vars

\* The schema exists and nobody has registered.
AuthInit ==
    /\ schools = [s \in SchoolIds |-> NoRow]
    /\ nextSchoolId = 1
    /\ app_users = {}
    /\ otp_verifications = {}
    /\ req = [p \in Procs |-> Idle]
    /\ deletedOk = {}
    /\ isInitializing = FALSE
    /\ isInitialized = TRUE
    /\ created = SchemaObjects
    /\ call = [p \in Procs |-> NoCall]
    /\ nextOtpId = 1
    /\ is_verified = [u \in UserIds |-> FALSE]
    /\ password_hash = [u \in UserIds |-> Null]
    /\ last_login = [u \in UserIds |-> NoTime]
    /\ now = 0
    /\ sessions = {}
    /\ auth = NoAuth
    /\ schoolsState = <<>>
    /\ deleteLoading = NoSchoolId
    /\ user = NoUser
    /\ handler = [p \in Procs |-> NoHandler]

AuthNext ==
    \/ \E u \in UserIds, password \in Passwords : register(u, password)
    \/ \E u \in UserIds, code \in OtpCodes : verifyOtp(u, code)
    \/ \E u \in UserIds : resendOtp(u)
    \/ \E u \in UserIds, password \in Passwords : login(u, password)
    \/ Tick

AuthSpec == AuthInit /\ [][AuthNext]_vars

\* The page has just been mounted: the list is empty, nobody is logged in
\* yet and no deletion is running; the server side is at rest.
PageInit == AuthInit

PageNext ==
    \/ \E p \in Procs : handleDeleteSchool_Begin(p)
    \/ \E p \in Procs : handleDeleteSchool_Fetch(p)
    \/ \E p \in Procs : handleDeleteSchool_Json(p)
    \/ \E p \in Procs : handleDeleteSchool_Settled(p)
    \/ \E data \in ListInputs : fetchSchools(data)
    \/ \E u \in UserIds \cup {NoUser} : useAuth(u)

PageSpec == PageInit /\ [][PageNext]_vars

\* -------------------------------------------------------------- the claims
Done(p) == req[p].pc = "done"

Mutating(r) == r.method \in {"PUT", "DELETE"}

C2_MutationOnlyByCurrentOwner ==
    [][\A p \in Procs :
         (req'[p] # req[p] /\ schools' # schools)
            => RowOf(req[p].schoolId).created_by = req[p].userId]_vars

\* C3: a PUT or DELETE whose cookie is absent or whose token fails
\* verifyToken is answered 401 at once, whatever its id and body: it has
\* checked out no connection and issued no query.
C3_NoTokenUnauthorized ==
    \A p \in Procs :
        (Mutating(req[p]) /\ req[p].in.token \in {"absent", "invalid"})
            => /\ Done(p)
               /\ req[p].resp.status = 401
               /\ req[p].resp.body.success = FALSE
               /\ req[p].client = "none"
               /\ req[p].queries = 0

\* A DELETE without a cookie and a PUT with a bad token and a bad id and
\* body have been answered 401 while a school is stored.
C3_Witness ==
    /\ \E s \in SchoolIds : schools[s].stored
    /\ \E p \in Procs :
          /\ Done(p) /\ req[p].method = "PUT"
          /\ req[p].in.token = "invalid"
          /\ ~req[p].in.idNumeric
          /\ req[p].resp.status = 401

\* C4 as it is stated: every GET that begins after a DELETE of the same id
\* has answered success is answered 404.
C4_GetAfterDeleteIsNotFound ==
    \A p \in Procs :
        (Done(p) /\ req[p].method = "GET" /\ req[p].in.afterDelete)
            => req[p].resp.status = 404

\* C4, amended: once a DELETE of an id has answered success the id has no
\* row ever again, and every GET of that id that begins afterwards is
\* answered 404, or 500 when one of its store calls threw; none is
\* answered with success.
C4_DeletedStaysUnreadable ==
    /\ \A s \in deletedOk : ~RowOf(s).stored
    /\ \A p \in Procs :
          (Done(p) /\ req[p].method = "GET" /\ req[p].in.afterDelete)
              => /\ req[p].resp.body.success = FALSE
                 /\ \/ req[p].resp.status = 404 /\ req[p].in.thrown = "none"
                    \/ req[p].resp.status = 500 /\ req[p].in.thrown # "none"

\* A GET that began after the DELETE of its id has read the store and
\* answered 404.
C4_Witness ==
    \E p \in Procs :
        /\ Done(p) /\ req[p].method = "GET" /\ req[p].in.afterDelete
        /\ req[p].schoolId \in deletedOk
        /\ req[p].queries = 1
        /\ req[p].resp.status = 404

\* The input of request r fails the handler's validation.
InvalidInput(r) ==
    \/ r.method = "PUT" /\ (~r.in.idNumeric \/ ~r.in.bodyValid)
    \/ r.method \in {"GET", "DELETE"} /\ ~r.in.idNumeric

OwnerPut(r) ==
    /\ r.method = "PUT"
    /\ r.in.token = "valid" /\ r.in.idNumeric /\ r.in.bodyValid
    /\ r.in.relation = "owner"

\* C6 as it is stated: every PUT of the school's owner with valid fields is
\* answered with success (and has replaced the row).
C6_OwnerPutAlwaysReplaces ==
    \A p \in Procs :
        (Done(p) /\ OwnerPut(req[p])) => req[p].resp.status = 200

\* C6, amended: a PUT that is answered with success has replaced the row:
\* in the step that answers, the six columns of the stored row become the
\* values the handler was given (the contact as the integer parseInt read),
\* created_by stays, and the response carries that row; a GET answered with
\* success carries the row as stored when it read it.  A PUT of the owner
\* with valid fields is answered with success unless a store call threw
\* (500), or the row was deleted (404, or 500 from the UPDATE) or lost its
\* owner (403) while the request ran.
C6_SuccessfulPutReplacesRow ==
    [][\A p \in Procs :
         LET r == req[p]
             s == r.schoolId
             after == req'[p]
         IN  /\ (r.method = "PUT" /\ after.pc = "done" /\ r.pc # "done"
                    /\ after.resp.status = 200)
                  => /\ r.pc = "update"
                     /\ s \in SchoolIds
                     /\ schools'[s].stored
                     /\ schools'[s].name = r.form.name
                     /\ schools'[s].address = r.form.address
                     /\ schools'[s].city = r.form.city
                     /\ schools'[s].state = r.form.state
                     /\ schools'[s].contact = r.form.contactNumber
                     /\ schools'[s].email_id = r.form.email_id
                     /\ schools'[s].created_by = schools[s].created_by
                     /\ after.resp.body.data = RowData(s, schools'[s])
             /\ (r.method = "GET" /\ after.pc = "done" /\ r.pc # "done"
                    /\ after.resp.status = 200)
                  => /\ s \in SchoolIds
                     /\ schools[s].stored
                     /\ after.resp.body.data.row = RowData(s, schools[s])
             /\ (OwnerPut(after) /\ after.pc = "done" /\ r.pc # "done"
                    /\ after.resp.status # 200)
                  => \/ after.resp.status = 500 /\ after.in.thrown # "none"
                     \/ /\ after.resp.status \in {404, 500}
                        /\ ~RowOf(after.schoolId).stored
                     \/ /\ after.resp.status = 403
                        /\ RowOf(after.schoolId).created_by = NoUser]_vars

\* The owner's PUT of FormB has been answered with success, and the row
\* holds FormB's values.
C6_Witness ==
    \E p \in Procs :
        /\ Done(p) /\ OwnerPut(req[p])
        /\ req[p].resp.status = 200
        /\ req[p].resp.body.data.name = FormB.name
        /\ req[p].resp.body.data.contact = 20
        /\ RowOf(req[p].schoolId).email_id = FormB.email_id

\* The messages the catch blocks answer with.
CatchMessages ==
    {"Internal server error", "Failed to update school",
     "Failed to fetch school", "Failed to delete school"}

\* C7: a request one of whose store calls (the connection checkout or a
\* query) threw has been answered, with status 500 and a body that holds
\* success false and one of the fixed messages, nothing of the error.
C7_StoreFailureIsInternalError ==
    \A p \in Procs :
        req[p].in.thrown # "none"
            => /\ Done(p)
               /\ req[p].resp.status = 500
               /\ DOMAIN req[p].resp.body = {"success", "error"}
               /\ req[p].resp.body.success = FALSE
               /\ req[p].resp.body.error \in CatchMessages
               /\ req[p].resp.body.error \notin StoreErrors

\* A PUT whose UPDATE threw and a GET whose SELECT threw have been
\* answered 500.
C7_Witness ==
    /\ \E p \in Procs :
          /\ Done(p) /\ req[p].method = "PUT" /\ req[p].queries = 2
          /\ req[p].in.thrown # "none" /\ req[p].resp.status = 500
    /\ \E p \in Procs :
          /\ Done(p) /\ req[p].method = "GET" /\ req[p].queries = 1
          /\ req[p].in.thrown # "none" /\ req[p].resp.status = 500

\* C8: every stored school has non-empty name, address, city, state and
\* e-mail, a contact that is a positive integer and an e-mail of the form
\* local@domain.tld.
C8_StoredSchoolsAreValid ==
    \A s \in SchoolIds :
        schools[s].stored
            => /\ \A k \in {"name", "address", "city", "state", "email_id"} :
                     schools[s][k] # Null /\ Len(schools[s][k]) > 0
               /\ schools[s].contact \in Nat \ {0}
               /\ BasicEmailForm(schools[s].email_id)

\* A PUT has been rejected with 400 and another accepted, and the school
\* is stored.
C8_Witness ==
    /\ \E p \in Procs :
          /\ Done(p) /\ req[p].method = "PUT" /\ req[p].resp.status = 200
          /\ RowOf(req[p].schoolId).stored
    /\ \E p \in Procs :
          /\ Done(p) /\ req[p].method = "PUT" /\ req[p].resp.status = 400
          /\ req[p].in.relation = "owner"

ErrorMessages ==
    CatchMessages \cup
    {"Authentication required", "Invalid authentication token",
     "Invalid school ID", "All fields are required", "Invalid email format",
     "Invalid contact number", "School not found",
     "You can only edit schools you created",
     "You can only delete schools you created"}

\* C10: every response carries a boolean success, which is true exactly
\* when the status is 200, and a response with success false carries an
\* error string and no data.
C10_UniformEnvelope ==
    \A p \in Procs :
        Done(p)
            => LET status == req[p].resp.status
                   body == req[p].resp.body
               IN  /\ "success" \in DOMAIN body
                   /\ body.success \in BOOLEAN
                   /\ body.success <=> status = 200
                   /\ DOMAIN body \subseteq {"success", "data", "error", "message"}
                   /\ ~body.success
                        => /\ "error" \in DOMAIN body
                           /\ body.error \in ErrorMessages
                           /\ "data" \notin DOMAIN body

\* A response with success true and data, and one with success false, are
\* out at the same time.
C10_Witness ==
    /\ \E p \in Procs :
          /\ Done(p) /\ req[p].resp.status = 200
          /\ "data" \in DOMAIN req[p].resp.body
    /\ \E p \in Procs :
          /\ Done(p) /\ req[p].resp.status = 403


\* A call of initializeDatabase() that holds the flag: it is between the
\* assignment isInitializing = true and its end.
InProgress(c) == c.pc \in {"connect", "query"}

\* C11: once a call of initializeDatabase() has run to its end with all
\* statements done (isInitialized is true), isInitialized stays true, no
\* schema statement changes the database any more, and every call that
\* begins returns at once with no connection checked out and no statement
\* issued.
C11_StartupIdempotent ==
    [][isInitialized
         => /\ isInitialized'
            /\ created' = created
            /\ \A p \in Procs :
                  /\ ~InProgress(call'[p])
                  /\ (call[p].pc = "idle" /\ call'[p].pc # "idle")
                        => /\ call'[p].pc = "returned"
                           /\ call'[p].client = "none"
                           /\ call'[p].statements = 0]_vars

\* One call has initialized the database and a call made after it has
\* returned.
C11_Witness ==
    /\ isInitialized
    /\ created = SchemaObjects
    /\ \E p \in Procs :
          /\ call[p].pc = "returned"
          /\ call[p].in.isInitialized
          /\ call[p].statements = 0

\* The supplied code is the code of a record of the user, and every record
\* of the user with that code was past its expiry when verifyOtp was called.
CodeOfExpiredRecord(a) ==
    /\ a.in.matches # {}
    /\ a.in.matches \subseteq a.in.expired

\* The newest record of the user was past its expiry at the call.
NewestExpired(a) == a.in.newest \in a.in.expired

\* login by a user who is registered and not verified fails with
\* NotVerified.
PendingLoginFails ==
    (auth.op = "login" /\ auth.in.pending) => auth.outcome = "NotVerified"

C13_NoSessionBeforeVerified ==
    /\ (auth.op = "login" /\ auth.in.pending)
          => /\ auth.outcome = "NotVerified"
             /\ auth.user \notin sessions
    /\ \A u \in sessions : u \in app_users /\ is_verified[u]

\* A pending user has been refused with the right password while a
\* verified user holds a session token.
C13_Witness ==
    /\ auth.op = "login"
    /\ auth.in.pending
    /\ auth.in.passwordOk
    /\ auth.outcome = "NotVerified"
    /\ sessions # {}

\* The supplied code is the code of an earlier record of the user and not
\* that of the newest one.
CodeOfEarlierRecord(a) ==
    /\ a.in.matches # {}
    /\ a.in.newest \notin a.in.matches

Precedence(r) ==
    IF r.in.token # "valid" THEN 401
    ELSE IF ~r.in.idNumeric THEN 400
    ELSE IF r.method = "PUT" /\ ~r.in.bodyValid THEN 400
    ELSE IF r.in.relation = "norow" THEN 404
    ELSE IF r.in.relation = "other" THEN 403
    ELSE 200

Answered(r2, s) == r2.pc = "done" /\ r2.resp.status = s

C16_OrphanSchoolNeverMutated ==
    [][\A s \in SchoolIds :
         (schools[s].stored /\ schools[s].created_by = NoUser)
            => schools'[s] = schools[s]]_vars

\* C17: an operation that has finished holds no connection: every
\* connection a PUT, GET or DELETE handler or an initializeDatabase() call
\* checked out has been released when the operation is over.
C17_ConnectionsReleased ==
    /\ \A p \in Procs : Done(p) => req[p].client # "held"
    /\ \A p \in Procs :
          call[p].pc \in {"returned", "threw"} => call[p].client # "held"

\* C18: whenever a call of initializeDatabase() has returned without
\* throwing, the three tables, the function and the two triggers exist.
C18_ReturnedMeansSchemaCreated ==
    \A p \in Procs : call[p].pc = "returned" => created = SchemaObjects

\* C19: the step in which a call of initializeDatabase() fails leaves
\* isInitializing false and isInitialized false, so that a later call
\* passes the guard; and isInitializing is true only while a call is between
\* its guard and its end.
C19_FailedInitCanBeRetried ==
    [][/\ \A p \in Procs :
             (call[p].pc # "threw" /\ call'[p].pc = "threw")
                => ~isInitializing' /\ ~isInitialized'
       /\ isInitializing' => \E p \in Procs : InProgress(call'[p])]_vars

\* Two DELETE requests for the same school, both sent by the user who owned
\* it when they arrived, have both been answered.
OwnerDeletes(p, q) ==
    /\ p # q
    /\ Done(p) /\ Done(q)
    /\ req[p].method = "DELETE" /\ req[q].method = "DELETE"
    /\ req[p].schoolId = req[q].schoolId
    /\ req[p].in.relation = "owner" /\ req[q].in.relation = "owner"

\* C20: of two concurrent DELETE requests of the owner for the same school
\* at most one is answered with success; when one is, the other is answered
\* 404 or 500 and the school's row is gone.
C20_OneDeleteSucceeds ==
    \A p, q \in Procs :
        (OwnerDeletes(p, q) /\ req[p].resp.status = 200)
           => /\ req[q].resp.status \in {404, 500}
              /\ ~RowOf(req[p].schoolId).stored


\* The server answered the DELETE of this call with success: the response
\* was ok and its body parsed to success true.
ServerSaidSuccess(h) ==
    /\ h.sent
    /\ h.response.kind = "http"
    /\ h.response.status >= 200 /\ h.response.status <= 299
    /\ h.response.parses
    /\ h.response.success

\* C21: a step of handleDeleteSchool changes the displayed list only when
\* it ends a call whose DELETE the server answered with success, and then
\* by removing that school; a call made while not logged in, not by the
\* creator or with the confirmation declined ends without a request and
\* with the list unchanged; a call whose request failed, timed out or
\* returned success false ends with the list unchanged; and every call that
\* sent a request ends with deleteLoading null.
C21_RemovedOnlyAfterServerSuccess ==
    [][\A p \in Procs :
          handler'[p] # handler[p] =>
             LET h == handler'[p]
             IN  IF h.pc # "done"
                 THEN schoolsState' = schoolsState
                 ELSE /\ schoolsState' # schoolsState
                            => /\ ServerSaidSuccess(h)
                               /\ schoolsState'
                                     = Filter(schoolsState, h.schoolId)
                      /\ ServerSaidSuccess(h)
                            => Find(schoolsState', h.schoolId) = {}
                      /\ (~h.in.loggedIn \/ ~h.in.creator \/ ~h.in.confirmed)
                            => ~h.sent /\ schoolsState' = schoolsState
                      /\ (h.sent /\ ~ServerSaidSuccess(h))
                            => schoolsState' = schoolsState
                      /\ h.sent => deleteLoading' = NoSchoolId]_vars

\* One call has removed its school after the server's success and left
\* deleteLoading null, while another, whose confirmation the creator
\* declined, ended without a request.
C21_Witness ==
    \E p, q \in Procs :
        /\ handler[p].pc = "done" /\ ServerSaidSuccess(handler[p])
        /\ handler[p].in.listed
        /\ Find(schoolsState, handler[p].schoolId) = {}
        /\ deleteLoading = NoSchoolId
        /\ handler[q].pc = "done" /\ ~handler[q].sent
        /\ handler[q].in.creator /\ ~handler[q].in.confirmed

=============================================================================
